---- MODULE Spec2Model ----
(***************************************************************************)
(* A model of package intergo (src/intergo.go): the locale-string parser,  *)
(* the two-level translation store language -> region -> (key -> text),    *)
(* the preferred-locale cache and the lookup operations with their         *)
(* fallback rules.                                                         *)
(*                                                                         *)
(* Go strings are modelled as sequences of one-character strings when the  *)
(* code scans them (locale strings, language and region codes) and as TLA+ *)
(* strings when the code only compares them (keys and texts).              *)
(* Go maps are references.  A Language map is created once per language    *)
(* (AddLocale, line 131) and afterwards updated in place (line 133), so a  *)
(* reference to it is modelled by the language code that owns it.  A       *)
(* Locale map is never written by the package, so a reference to it is     *)
(* modelled by its contents.  A nil Locale is distinct from an empty one.  *)
(***************************************************************************)
EXTENDS Integers, Sequences, FiniteSets, TLC

VARIABLES languages, prefered, preferedLang, ret, hist

vars == <<languages, prefered, preferedLang, ret, hist>>

-----------------------------------------------------------------------------
(* Bounds and the finite input sets.                                       *)

\* longest locale string handed to the parser in ParseSpec
MaxLen == 6

\* the characters locale strings are made of in ParseSpec
Alphabet == {"p", "B", "_", ".", " ", "\n"}

Strings == UNION {[1..k -> Alphabet] : k \in 0..MaxLen}

\* the keys looked up and the texts stored; "" is a text a table can hold
Keys == {"hello", "bye"}

pt_BR == <<"p", "t", "_", "B", "R">>

pt_BR_UTF8 == <<"p", "t", "_", "B", "R", ".", "U", "T", "F", "-", "8">>

pt_PT == <<"p", "t", "_", "P", "T">>

en_US == <<"e", "n", "_", "U", "S">>

\* locale strings the callers pass; << >> is the empty string (the value of
\* an unset environment variable)
LocaleStrings == {pt_BR, pt_BR_UTF8, pt_PT, en_US, << >>}

-----------------------------------------------------------------------------
(* fmt.Sscanf(locale, "%2s_%2s", &lang, &local)                            *)

Width == 2

isSpace(c) == c \in {" ", "\t", "\n", "\r"}

\* ss.SkipSpace with nlIsSpace = false: spaces are skipped, a newline is an
\* error
RECURSIVE SkipSpace(_)
SkipSpace(s) ==
    IF s = << >> THEN [err |-> "", rest |-> << >>]
    ELSE IF Head(s) = "\n" THEN [err |-> "unexpected newline", rest |-> Tail(s)]
    ELSE IF isSpace(Head(s)) THEN SkipSpace(Tail(s))
    ELSE [err |-> "", rest |-> s]

\* a scan that ignores the verb's width (%s instead of %2s)
RECURSIVE TokenLenNoWidth(_, _)
TokenLenNoWidth(s, w) ==
    IF s = << >> \/ isSpace(Head(s)) THEN 0
    ELSE 1 + TokenLenNoWidth(Tail(s), w)

\* the number of runes %<w>s reads: the non-space runes at the head of s, at
\* most w of them
RECURSIVE TokenLen(_, _)
TokenLen(s, w) ==
    IF w = 0 \/ s = << >> \/ isSpace(Head(s)) THEN 0
    ELSE 1 + TokenLen(Tail(s), w - 1)

ScanFail(n, e) == [n |-> n, err |-> e, lang |-> << >>, local |-> << >>]

Sscanf(locale) ==
    LET s1 == SkipSpace(locale) IN
    IF s1.err # "" THEN ScanFail(0, s1.err)
    ELSE IF s1.rest = << >> THEN ScanFail(0, "EOF")
    ELSE
      LET k1 == TokenLen(s1.rest, Width)
          lang == SubSeq(s1.rest, 1, k1)
          r1 == SubSeq(s1.rest, k1 + 1, Len(s1.rest))
      IN
      IF r1 = << >> THEN ScanFail(1, "unexpected EOF")
      ELSE IF Head(r1) # "_" THEN ScanFail(1, "input does not match format")
      ELSE
        LET s2 == SkipSpace(Tail(r1)) IN
        IF s2.err # "" THEN ScanFail(1, s2.err)
        ELSE IF s2.rest = << >> THEN ScanFail(1, "EOF")
        ELSE
          LET k2 == TokenLen(s2.rest, Width) IN
          [n |-> 2, err |-> "", lang |-> lang, local |-> SubSeq(s2.rest, 1, k2)]

parseLocaleString(locale) ==
    LET r == Sscanf(locale) IN
    IF r.err # "" THEN [lang |-> << >>, local |-> << >>, err |-> r.err]
    ELSE IF r.n # 2
      THEN [lang |-> << >>, local |-> << >>, err |-> "unparsable locale string"]
    ELSE [lang |-> r.lang, local |-> r.local, err |-> ""]

-----------------------------------------------------------------------------
(* The data model: Locale, Language, InterContext.                         *)

\* type Locale map[string]string; the nil map and the empty map differ
NilLocale == [nil |-> TRUE, m |-> << >>]

MkLocale(m) == [nil |-> FALSE, m |-> m]

\* the entries values a caller passes to AddLocale: nil, the empty map, a
\* map holding the empty text, and maps holding texts
Locales ==
    {NilLocale, MkLocale(<< >>),
     MkLocale("hello" :> ""),
     MkLocale("hello" :> "ola"),
     MkLocale("hello" :> "oi"),
     MkLocale(("hello" :> "oi") @@ ("bye" :> "tchau"))}

\* the (locale, entries) pairs a caller passes to AddLocale
AddInputs ==
    ({pt_BR, pt_PT} \X Locales)
      \cup ({pt_BR_UTF8} \X {MkLocale("hello" :> "oi")})
      \cup ({en_US} \X {MkLocale(("hello" :> "hi") @@ ("bye" :> "bye"))})
      \cup ({<< >>} \X {MkLocale("hello" :> "ola")})

\* l[text] on a Locale: the zero value "" for a nil map or a missing key
LocaleIndex(l, text) ==
    IF l.nil \/ text \notin DOMAIN l.m THEN "" ELSE l.m[text]

\* the nil reference to a Language map, and a reference to languages[lang]
NilLang == [nil |-> TRUE, ref |-> << >>]

LangRef(lang) == [nil |-> FALSE, ref |-> lang]

\* g[local] on a Language: nil for a missing region
LanguageIndex(g, local) ==
    IF local \in DOMAIN g THEN g[local] ELSE NilLocale

\* m[k] = v on a map
MapSet(m, k, v) == [x \in DOMAIN m \cup {k} |-> IF x = k THEN v ELSE m[x]]

Ctx == [languages |-> languages, prefered |-> prefered,
        preferedLang |-> preferedLang]

NoRet == [op |-> "", locale |-> << >>, text |-> "", result |-> "",
          err |-> "", lang |-> << >>, local |-> << >>, old |-> NilLocale,
          had |-> FALSE, entries |-> NilLocale]

NoHist == [set |-> FALSE, locale |-> << >>, added |-> FALSE]

\* func (ctx *InterContext) Init()
Init ==
    /\ languages = << >>
    /\ prefered = NilLocale
    /\ preferedLang = NilLang
    /\ ret = NoRet
    /\ hist = NoHist

-----------------------------------------------------------------------------
(* The operations of InterContext.  Each takes the context as a record and *)
(* yields the context it leaves behind together with what it returns.      *)

\* AddLocale without the nil check of line 130: the group is always rebuilt
AddLocaleRebuild(ctx, locale, entries) ==
    LET p == parseLocaleString(locale) IN
    IF p.err # "" THEN [ctx |-> ctx, err |-> p.err]
    ELSE [ctx |-> [ctx EXCEPT !.languages =
                     MapSet(@, p.lang, MapSet(<< >>, p.local, entries))],
          err |-> ""]

AddLocale(ctx, locale, entries) ==
    LET p == parseLocaleString(locale) IN
    IF p.err # "" THEN [ctx |-> ctx, err |-> p.err]
    ELSE IF p.lang \notin DOMAIN ctx.languages
      THEN [ctx |-> [ctx EXCEPT !.languages =
                       MapSet(@, p.lang, MapSet(<< >>, p.local, entries))],
            err |-> ""]
    ELSE [ctx |-> [ctx EXCEPT !.languages =
                     MapSet(@, p.lang, MapSet(@[p.lang], p.local, entries))],
          err |-> ""]

\* SetPreferedLocale assigning the cache before it looks at the parse error
SetPreferedLocaleEager(ctx, locale) ==
    LET p == parseLocaleString(locale)
        pl == IF p.lang \in DOMAIN ctx.languages THEN LangRef(p.lang)
              ELSE NilLang
        c == [ctx EXCEPT
                !.preferedLang = pl,
                !.prefered = IF pl.nil THEN @
                             ELSE LanguageIndex(ctx.languages[p.lang], p.local)]
    IN [ctx |-> c, err |-> p.err]

SetPreferedLocale(ctx, locale) ==
    LET p == parseLocaleString(locale) IN
    IF p.err # "" THEN [ctx |-> ctx, err |-> p.err]
    ELSE
      LET pl == IF p.lang \in DOMAIN ctx.languages THEN LangRef(p.lang)
                ELSE NilLang
      IN [ctx |-> [ctx EXCEPT
                     !.preferedLang = pl,
                     !.prefered = IF pl.nil THEN @
                                  ELSE LanguageIndex(ctx.languages[p.lang],
                                                     p.local)],
          err |-> ""]

\* lcall and lang are the values of the environment variables LC_ALL and LANG
AutoSetPreferedLocale(ctx, lcall, lang) ==
    LET r1 == SetPreferedLocale(ctx, lcall) IN
    IF r1.err = "" THEN [ctx |-> r1.ctx, err |-> ""]
    ELSE SetPreferedLocale(r1.ctx, lang)

\* for _, l := range g { if l[text] != "" { return l[text] } }; return text
\* The iteration order of a Go map is unspecified: every non-empty hit can be
\* the first one met.
RangeFirst(g, text) ==
    LET hits == {LocaleIndex(g[r], text) : r \in DOMAIN g} \ {""} IN
    IF hits = {} THEN {text} ELSE hits

\* Get that goes to the group without looking at the preferred table first
GetNoPrefered(ctx, text) ==
    IF ctx.preferedLang.nil THEN {text}
    ELSE RangeFirst(ctx.languages[ctx.preferedLang.ref], text)

\* the set of values Get can return
Get(ctx, text) ==
    IF ctx.preferedLang.nil THEN {text}
    ELSE IF ~ctx.prefered.nil /\ LocaleIndex(ctx.prefered, text) # ""
      THEN {LocaleIndex(ctx.prefered, text)}
    ELSE RangeFirst(ctx.languages[ctx.preferedLang.ref], text)

\* GetFromLocale that searches every language when the exact table is missing
GetFromLocaleAnyLang(ctx, text, locale) ==
    LET p == parseLocaleString(locale) IN
    IF p.err # "" THEN {[result |-> text, err |-> p.err]}
    ELSE
      LET localMap == IF p.lang \in DOMAIN ctx.languages
                      THEN LanguageIndex(ctx.languages[p.lang], p.local)
                      ELSE NilLocale
      IN
      IF localMap.nil
        THEN LET all == UNION {RangeFirst(ctx.languages[l], text) :
                                 l \in DOMAIN ctx.languages}
             IN {[result |-> t, err |-> ""] : t \in all \cup {text}}
      ELSE IF LocaleIndex(localMap, text) = ""
        THEN {[result |-> text, err |-> ""]}
      ELSE {[result |-> LocaleIndex(localMap, text), err |-> ""]}

\* GetFromLocale whose fallback loop returns the first table's entry without
\* testing it for the empty string
GetFromLocaleNoTest(ctx, text, locale) ==
    LET p == parseLocaleString(locale) IN
    IF p.err # "" THEN {[result |-> text, err |-> p.err]}
    ELSE IF p.lang \notin DOMAIN ctx.languages
      THEN {[result |-> text, err |-> ""]}
    ELSE
      LET langMap == ctx.languages[p.lang]
          localMap == LanguageIndex(langMap, p.local)
      IN
      IF localMap.nil
        THEN {[result |-> LocaleIndex(langMap[r], text), err |-> ""] :
                r \in DOMAIN langMap}
      ELSE IF LocaleIndex(localMap, text) = ""
        THEN {[result |-> text, err |-> ""]}
      ELSE {[result |-> LocaleIndex(localMap, text), err |-> ""]}

\* the set of (text, error) pairs GetFromLocale can return
GetFromLocale(ctx, text, locale) ==
    LET p == parseLocaleString(locale) IN
    IF p.err # "" THEN {[result |-> text, err |-> p.err]}
    ELSE IF p.lang \notin DOMAIN ctx.languages
      THEN {[result |-> text, err |-> ""]}
    ELSE
      LET langMap == ctx.languages[p.lang]
          localMap == LanguageIndex(langMap, p.local)
      IN
      IF localMap.nil
        THEN {[result |-> t, err |-> ""] : t \in RangeFirst(langMap, text)}
      ELSE IF LocaleIndex(localMap, text) = ""
        THEN {[result |-> text, err |-> ""]}
      ELSE {[result |-> LocaleIndex(localMap, text), err |-> ""]}

-----------------------------------------------------------------------------
(* What the properties say about a locale string, stated on the string     *)
(* itself and not through the parser.                                      *)

\* language_region or language_region.encoding, two characters each
WellFormed(s) ==
    /\ Len(s) >= 5
    /\ s[3] = "_"
    /\ \A i \in {1, 2, 4, 5} : ~isSpace(s[i])
    /\ Len(s) > 5 => s[6] = "."

LangOf(s) == <<s[1], s[2]>>

RegionOf(s) == <<s[4], s[5]>>

\* is a table stored under (l, r), and which
HasSlot(langs, l, r) == l \in DOMAIN langs /\ r \in DOMAIN langs[l]

SlotOf(langs, l, r) == IF HasSlot(langs, l, r) THEN langs[l][r] ELSE NilLocale

\* the non-empty texts the tables of language l hold for key
GroupTexts(langs, l, key) ==
    IF l \notin DOMAIN langs THEN {}
    ELSE {LocaleIndex(langs[l][r], key) : r \in DOMAIN langs[l]} \ {""}

-----------------------------------------------------------------------------------------------------------------------------------------------------
(* The calls a program makes on the context.  The program makes one call   *)
(* at a time: ret = NoRet between calls, and after a call ret holds the    *)
(* call, its arguments and what it returned until the caller goes on.  For *)
(* AddLocale, had and old record whether a table was stored in the slot    *)
(* before the call, and which.  hist records the locale string of the last *)
(* successful SetPreferedLocale if it found a Language Group (set is FALSE *)
(* if it found none), and whether AddLocale has succeeded since.           *)

HistSet(h, ctx, locale) ==
    LET p == parseLocaleString(locale) IN
    IF p.err # "" THEN h
    ELSE IF p.lang \notin DOMAIN ctx.languages THEN NoHist
    ELSE [set |-> TRUE, locale |-> locale, added |-> FALSE]

AddLocaleCall ==
    /\ ret = NoRet
    /\ \E in \in AddInputs :
         \E r \in {AddLocale(Ctx, in[1], in[2])} :
           /\ languages' = r.ctx.languages
           /\ prefered' = r.ctx.prefered
           /\ preferedLang' = r.ctx.preferedLang
           /\ ret' = [NoRet EXCEPT
                        !.op = "AddLocale", !.locale = in[1], !.err = r.err,
                        !.entries = in[2],
                        !.had = WellFormed(in[1]) /\
                                HasSlot(languages, LangOf(in[1]),
                                        RegionOf(in[1])),
                        !.old = IF WellFormed(in[1])
                                THEN SlotOf(languages, LangOf(in[1]),
                                            RegionOf(in[1]))
                                ELSE NilLocale]
           /\ hist' = IF r.err = "" /\ hist.set
                      THEN [hist EXCEPT !.added = TRUE] ELSE hist

SetPreferedLocaleCall ==
    /\ ret = NoRet
    /\ \E locale \in LocaleStrings :
         \E r \in {SetPreferedLocale(Ctx, locale)} :
           /\ languages' = r.ctx.languages
           /\ prefered' = r.ctx.prefered
           /\ preferedLang' = r.ctx.preferedLang
           /\ ret' = [NoRet EXCEPT !.op = "SetPreferedLocale",
                                   !.locale = locale, !.err = r.err]
           /\ hist' = HistSet(hist, Ctx, locale)

AutoSetPreferedLocaleCall ==
    /\ ret = NoRet
    /\ \E lcall \in LocaleStrings, lang \in LocaleStrings :
         \E r \in {AutoSetPreferedLocale(Ctx, lcall, lang)},
            r1 \in {SetPreferedLocale(Ctx, lcall)} :
           /\ languages' = r.ctx.languages
           /\ prefered' = r.ctx.prefered
           /\ preferedLang' = r.ctx.preferedLang
           /\ ret' = [NoRet EXCEPT
                        !.op = "AutoSetPreferedLocale",
                        !.locale = IF r1.err = "" THEN lcall ELSE lang,
                        !.err = r.err]
           /\ hist' = IF r1.err = "" THEN HistSet(hist, Ctx, lcall)
                      ELSE HistSet(hist, r1.ctx, lang)

GetCall ==
    /\ ret = NoRet
    /\ \E text \in Keys :
         \E t \in Get(Ctx, text) :
           /\ ret' = [NoRet EXCEPT !.op = "Get", !.text = text, !.result = t]
           /\ UNCHANGED <<languages, prefered, preferedLang, hist>>

GetFromLocaleCall ==
    /\ ret = NoRet
    /\ \E text \in Keys, locale \in LocaleStrings :
         \E r \in GetFromLocale(Ctx, text, locale) :
           /\ ret' = [NoRet EXCEPT !.op = "GetFromLocale", !.text = text,
                                   !.locale = locale, !.result = r.result,
                                   !.err = r.err]
           /\ UNCHANGED <<languages, prefered, preferedLang, hist>>

\* the caller has looked at what the call returned and goes on
Return ==
    /\ ret # NoRet
    /\ ret' = NoRet
    /\ UNCHANGED <<languages, prefered, preferedLang, hist>>

Next ==
    \/ AddLocaleCall
    \/ SetPreferedLocaleCall
    \/ AutoSetPreferedLocaleCall
    \/ GetCall
    \/ GetFromLocaleCall
    \/ Return

Spec == Init /\ [][Next]_vars

-----------------------------------------------------------------------------
(* The parser on its own.                                                  *)

\* the callers' locale strings, one per behaviour
ParseInit ==
    /\ languages = << >>
    /\ prefered = NilLocale
    /\ preferedLang = NilLang
    /\ hist = NoHist
    /\ \E s \in Strings : ret = [NoRet EXCEPT !.op = "input", !.locale = s]

ParseCall ==
    /\ ret.op = "input"
    /\ LET p == parseLocaleString(ret.locale) IN
       ret' = [ret EXCEPT !.op = "parseLocaleString", !.lang = p.lang,
                          !.local = p.local, !.err = p.err]
    /\ UNCHANGED <<languages, prefered, preferedLang, hist>>

ParseNext == ParseCall

ParseSpec == ParseInit /\ [][ParseNext]_vars

-----------------------------------------------------------------------------
(* Properties of the context (checked under Spec).                         *)

ExactText(langs, locale, key) ==
    LocaleIndex(SlotOf(langs, LangOf(locale), RegionOf(locale)), key)

\* the call ret records was GetFromLocale with a well-formed locale string
\* whose language has a group but whose region has no table
RegionMissingLookup ==
    /\ ret.op = "GetFromLocale"
    /\ WellFormed(ret.locale)
    /\ LangOf(ret.locale) \in DOMAIN languages
    /\ RegionOf(ret.locale) \notin DOMAIN languages[LangOf(ret.locale)]

\* C1: when the Language Group of L exists and no table is stored under R,
\* GetFromLocale(key, L_R) returns no error and a non-empty text some table of
\* the group holds for key if there is one, and key only if there is none.
C1_FallbackByRegion ==
    RegionMissingLookup =>
      /\ ret.err = ""
      /\ LET c == GroupTexts(languages, LangOf(ret.locale), ret.text) IN
         IF c # {} THEN ret.result \in c ELSE ret.result = ret.text

C1_Witness ==
    /\ RegionMissingLookup
    /\ ret.result \in GroupTexts(languages, LangOf(ret.locale), ret.text)
    /\ ret.result # ret.text

\* the call ret records was Get, the last successful SetPreferedLocale found
\* a Language Group, and no AddLocale succeeded since
GetAfterSet ==
    /\ ret.op = "Get"
    /\ hist.set
    /\ ~hist.added
    /\ WellFormed(hist.locale)

\* C2: after a successful SetPreferedLocale(L_R) that found the group of L and
\* with no AddLocale since, Get(key) returns the non-empty text of the table
\* at (L,R) if it has one, otherwise a non-empty text some table of the group
\* holds for key, otherwise key; it never returns the empty string.
C2_GetResolution ==
    GetAfterSet =>
      LET exact == ExactText(languages, hist.locale, ret.text)
          c == GroupTexts(languages, LangOf(hist.locale), ret.text)
      IN
      /\ exact # "" => ret.result = exact
      /\ (exact = "" /\ c # {}) => ret.result \in c
      /\ (exact = "" /\ c = {}) => ret.result = ret.text
      /\ ret.result # ""

C2_Witness ==
    /\ GetAfterSet
    /\ HasSlot(languages, LangOf(hist.locale), RegionOf(hist.locale))
    /\ ExactText(languages, hist.locale, ret.text) = ""
    /\ ret.result \in GroupTexts(languages, LangOf(hist.locale), ret.text)

\* C3: for a well-formed locale string GetFromLocale returns no error and
\* either key or a non-empty text a table of language L holds for key; when L
\* has no group it returns key, whatever the other groups hold.
C3_NoCrossLanguage ==
    (ret.op = "GetFromLocale" /\ WellFormed(ret.locale)) =>
      /\ ret.err = ""
      /\ \/ ret.result = ret.text
         \/ ret.result \in GroupTexts(languages, LangOf(ret.locale), ret.text)
      /\ LangOf(ret.locale) \notin DOMAIN languages => ret.result = ret.text

C3_Witness ==
    /\ ret.op = "GetFromLocale"
    /\ WellFormed(ret.locale)
    /\ LangOf(ret.locale) \notin DOMAIN languages
    /\ \E l \in DOMAIN languages : GroupTexts(languages, l, ret.text) # {}
    /\ ret.result = ret.text
    /\ ret.err = ""

\* the regions under which language l holds a table before or after a step
RegionsOf(langs, l) == IF l \in DOMAIN langs THEN DOMAIN langs[l] ELSE {}

\* C4: a successful AddLocale(L_R, entries) leaves exactly entries at (L,R),
\* so the keys of the table it replaced that entries lacks are no longer
\* found there, and every other slot holds the table it held before.
C4_AddLocaleOverwrites ==
    [][(ret'.op = "AddLocale" /\ ret'.err = "" /\ WellFormed(ret'.locale)) =>
         LET L == LangOf(ret'.locale)
             R == RegionOf(ret'.locale)
         IN
         /\ HasSlot(languages', L, R)
         /\ languages'[L][R] = ret'.entries
         /\ \A k \in Keys :
              LocaleIndex(ret'.entries, k) = "" =>
                LocaleIndex(languages'[L][R], k) = ""
         /\ \A l \in DOMAIN languages \cup DOMAIN languages' :
              \A r \in RegionsOf(languages, l) \cup RegionsOf(languages', l) :
                <<l, r>> # <<L, R>> =>
                  /\ HasSlot(languages, l, r) = HasSlot(languages', l, r)
                  /\ SlotOf(languages, l, r) = SlotOf(languages', l, r)
      ]_vars

C4_Witness ==
    /\ ret.op = "AddLocale"
    /\ ret.err = ""
    /\ ret.had
    /\ \E k \in Keys :
         LocaleIndex(ret.old, k) # "" /\ LocaleIndex(ret.entries, k) = ""
    /\ \E r \in RegionsOf(languages, LangOf(ret.locale)) :
         /\ r # RegionOf(ret.locale)
         /\ ~languages[LangOf(ret.locale)][r].nil

\* C7: whenever AddLocale has stored a table at (L,R), whatever entries value
\* it was given, GetFromLocale(key, L_R) returns that table's text for key if
\* it is non-empty and key otherwise, never a text of a sibling region.
C7_ExactTableNoSiblingFallback ==
    (/\ ret.op = "GetFromLocale"
     /\ WellFormed(ret.locale)
     /\ HasSlot(languages, LangOf(ret.locale), RegionOf(ret.locale))) =>
      /\ ret.err = ""
      /\ ret.result = IF ExactText(languages, ret.locale, ret.text) # ""
                      THEN ExactText(languages, ret.locale, ret.text)
                      ELSE ret.text

\* C8: a call of AddLocale, SetPreferedLocale or GetFromLocale whose locale
\* string does not parse returns the error and leaves the store and the
\* preferred group and table as they were; GetFromLocale returns key.
C8_ParseFailureNoChange ==
    [][(/\ ret'.op \in {"AddLocale", "SetPreferedLocale", "GetFromLocale"}
        /\ parseLocaleString(ret'.locale).err # "") =>
         /\ ret'.err = parseLocaleString(ret'.locale).err
         /\ languages' = languages
         /\ prefered' = prefered
         /\ preferedLang' = preferedLang
         /\ \A k \in Keys : Get(Ctx', k) = Get(Ctx, k)
         /\ ret'.op = "GetFromLocale" => ret'.result = ret'.text
      ]_vars

C8_Witness ==
    /\ ret.op = "SetPreferedLocale"
    /\ ret.err # ""
    /\ ~preferedLang.nil
    /\ ~prefered.nil

\* C9: after a successful SetPreferedLocale(L_R) that found the group of L and
\* any AddLocale calls, whenever the table now stored at (L,R) holds a
\* non-empty text for key, Get(key) returns that text.
C9_PreferedCacheConsistent ==
    (ret.op = "Get" /\ hist.set /\ WellFormed(hist.locale)
       /\ ExactText(languages, hist.locale, ret.text) # "") =>
      ret.result = ExactText(languages, hist.locale, ret.text)

\* C10: after a successful SetPreferedLocale(L_R) whose language has no
\* Language Group, the preferred group and the preferred table are both
\* absent and Get returns key.
C10_PreferedCleared ==
    (/\ ret.op = "SetPreferedLocale"
     /\ ret.err = ""
     /\ WellFormed(ret.locale)
     /\ LangOf(ret.locale) \notin DOMAIN languages) =>
      /\ preferedLang.nil
      /\ prefered.nil
      /\ \A k \in Keys : Get(Ctx, k) = {k}

-----------------------------------------------------------------------------
(* Properties of the parser (checked under ParseSpec).                     *)

Parsed == ret.op = "parseLocaleString"

\* the string is L_R or L_R.<encoding> for two characters L and two R
HasLocaleShape(s) ==
    /\ Len(s) >= 5
    /\ s[3] = "_"
    /\ Len(s) > 5 => s[6] = "."

BeforeUnderscore(s) ==
    LET i == CHOOSE j \in 1..Len(s) :
               s[j] = "_" /\ \A h \in 1..(j - 1) : s[h] # "_"
    IN i - 1

\* C6: a string with no underscore, or shorter than 5 characters, or with a
\* segment before the underscore that is not 2 characters long, is rejected,
\* and a successful parse yields a language and a region of 2 characters each.
C6_ParseFailure ==
    Parsed =>
      LET s == ret.locale
          none == \A i \in 1..Len(s) : s[i] # "_"
      IN
      /\ (none \/ Len(s) < 5 \/ BeforeUnderscore(s) # 2) => ret.err # ""
      /\ ret.err = "" => (Len(ret.lang) = 2 /\ Len(ret.local) = 2)

====
